---------------------------- MODULE Spec2Model ----------------------------
(***************************************************************************)
(* Stock Price Checker: the like-deduplication protocol of server.js       *)
(* against the stock_likes table.                                          *)
(*                                                                         *)
(* One step of the model is one statement executed by PostgreSQL (or one   *)
(* price lookup settling) together with the synchronous JavaScript that    *)
(* runs when its promise settles.  Between two awaits of one request any   *)
(* step of any other request may run.                                      *)
(*                                                                         *)
(* The repository holds two builds of the server: src/server.js and        *)
(* src/unnamed/part_000.  They share likeStockIfNeeded; they differ in     *)
(* getLikes (part_000 calls ensureRow first) and in getStockPrice          *)
(* (part_000 returns a fixed price and cannot fail).  The variable build   *)
(* says which one runs.                                                    *)
(***************************************************************************)
EXTENDS Integers, Sequences, FiniteSets, TLC

VARIABLES build, table, reqs

vars == <<build, table, reqs>>

(* ------------------------------ bounds -------------------------------- *)

\* number of requests the service receives in one behaviour
NumRequests == 2

\* how many of them may name two symbols
MaxTwoSymbol == 1

Slots == 1..NumRequests

Builds == {"server", "part_000"}

(* --------------------------- request inputs --------------------------- *)

Undefined == <<"undefined">>

\* a symbol as the query string carries it: a sequence of characters
RawSymbols == { <<"g", "o">>, <<"G", "O">>, <<"m", "s">> }

\* stock=a&stock=b: two different symbols in either order, one symbol twice
\* in two spellings, and three symbols
StockArrays ==
    { << <<"g", "o">>, <<"m", "s">> >>, << <<"m", "s">>, <<"G", "O">> >>,
      << <<"g", "o">>, <<"G", "O">> >>, << <<"g", "o">>, <<"m", "s">>, <<"G", "O">> >> }

\* req.query.stock: absent, the empty string, one string, or an array
StockParams ==
    {[kind |-> "undefined", items |-> <<>>], [kind |-> "string", items |-> << <<>> >>]}
    \cup {[kind |-> "string", items |-> <<s>>] : s \in RawSymbols}
    \cup {[kind |-> "array", items |-> items] : items \in StockArrays}

\* req.query.like
LikeParams == {Undefined, <<"t", "r", "u", "e">>, <<"T", "r", "u", "e">>, <<"f", "a", "l", "s", "e">>}

\* an address or a header that is absent (undefined and "" are both falsy)
NoAddr == <<>>

\* The part of a request getClientIP reads: the x-forwarded-for header, the
\* socket's remote address and req.ip.  A text is the sequence of its
\* pieces: an address, a comma or a blank.
Clients ==
    { [xff |-> <<"1.2.3.4", ",", " ", "10.0.0.1">>,
       remoteAddress |-> <<"10.0.0.1">>, ip |-> <<"10.0.0.1">>],
      [xff |-> <<" ", "1.2.3.4", " ">>, remoteAddress |-> <<"10.0.0.1">>, ip |-> <<"10.0.0.1">>],
      [xff |-> NoAddr, remoteAddress |-> <<"1.2.3.4">>, ip |-> <<"1.2.3.4">>],
      [xff |-> NoAddr, remoteAddress |-> NoAddr, ip |-> <<"1.2.3.4">>],
      [xff |-> NoAddr, remoteAddress |-> NoAddr, ip |-> NoAddr] }

(* ------------------------- string conversions ------------------------- *)

UpperChar(c) ==
    CASE c = "g" -> "G"
      [] c = "o" -> "O"
      [] c = "m" -> "M"
      [] c = "s" -> "S"
      [] OTHER -> c

LowerChar(c) ==
    CASE c = "T" -> "t"
      [] c = "G" -> "g"
      [] c = "O" -> "o"
      [] OTHER -> c

\* mutant: the symbol is used as it was sent
toUpperCaseOmitted(s) == s

toUpperCase(s) == [k \in 1..Len(s) |-> UpperChar(s[k])]

toLowerCase(s) == [k \in 1..Len(s) |-> LowerChar(s[k])]

\* String(like).toLowerCase() === 'true'
LikeFlagOf(like) == toLowerCase(like) = <<"t", "r", "u", "e">>

\* split(',')[0]: the text before the first comma
FirstField(h) ==
    LET commas == {k \in 1..Len(h) : h[k] = ","} IN
    IF commas = {} THEN h
    ELSE SubSeq(h, 1, (CHOOSE k \in commas : \A j \in commas : k <= j) - 1)

\* trim(): the text without its leading and trailing blanks
Trim(f) ==
    LET solid == {k \in 1..Len(f) : f[k] # " "} IN
    IF solid = {} THEN <<>>
    ELSE SubSeq(f, CHOOSE k \in solid : \A j \in solid : k <= j,
                   CHOOSE k \in solid : \A j \in solid : k >= j)

getClientIP(c) ==
    IF c.xff # NoAddr THEN Trim(FirstField(c.xff))
    ELSE IF c.remoteAddress # NoAddr THEN c.remoteAddress
    ELSE IF c.ip # NoAddr THEN c.ip
    ELSE <<"0.0.0.0">>

(* ------------------------------ the store ----------------------------- *)

\* a row of stock_likes without its key
NewRow == [likes |-> 0, ips |-> <<>>]

\* mutant: ON CONFLICT (symbol) DO UPDATE SET likes = 0, ips = '{}'
InsertOrReset(t, s) ==
    [x \in DOMAIN t \cup {s} |-> IF x = s THEN NewRow ELSE t[x]]

\* INSERT ... VALUES ($1, 0, '{}') ON CONFLICT (symbol) DO NOTHING
InsertIfAbsent(t, s) ==
    IF s \in DOMAIN t THEN t ELSE t @@ (s :> NewRow)

\* SELECT likes, ips FROM stock_likes WHERE symbol = $1: the rows found
SelectRows(t, s) ==
    IF s \in DOMAIN t THEN <<t[s]>> ELSE <<>>

\* mutant: the UPDATE without array_append
UpdateLikeCountOnly(t, s, ip) ==
    IF s \in DOMAIN t THEN [t EXCEPT ![s].likes = @ + 1] ELSE t

\* mutant: the UPDATE without its WHERE clause
UpdateLikeNoWhere(t, s, ip) ==
    [x \in DOMAIN t |-> [likes |-> t[x].likes + 1, ips |-> Append(t[x].ips, ip)]]

\* mutant: ips = ARRAY[$2] in place of array_append(ips, $2)
UpdateLikeOverwrite(t, s, ip) ==
    IF s \in DOMAIN t
    THEN [t EXCEPT ![s] = [likes |-> @.likes + 1, ips |-> <<ip>>]]
    ELSE t

\* UPDATE ... SET likes = likes + 1, ips = array_append(ips, $2) WHERE symbol = $1
UpdateLike(t, s, ip) ==
    IF s \in DOMAIN t
    THEN [t EXCEPT ![s] = [likes |-> @.likes + 1, ips |-> Append(@.ips, ip)]]
    ELSE t

\* mutant: the check for the ip always says no
IncludesNever(ips, ip) == FALSE

\* row.ips.includes(ip)
Includes(ips, ip) == \E k \in 1..Len(ips) : ips[k] = ip


(* ----------------------------- requests ------------------------------- *)

GlOff == [pc |-> "off", val |-> 0]

\* req.query.stock of a slot that holds no request
NoStock == [kind |-> "none", items |-> <<>>]

\* a request slot before its request arrives
IdleReq ==
    [hpc |-> "idle", n |-> 0, sym |-> <<>>, ip |-> <<>>, likeFlag |-> FALSE,
     lk |-> <<"off", "off">>, pre |-> << <<>>, <<>> >>,
     pr |-> <<"off", "off">>, gl |-> <<GlOff, GlOff>>, resp |-> <<>>,
     raw |-> NoStock, log |-> "none"]

LikeInFlight(pc) == pc \in {"ensure", "select", "update"}

\* some query or lookup of the request has been issued and has not settled
InFlight(q) ==
    \E i \in 1..2 : \/ LikeInFlight(q.lk[i])
                    \/ q.pr[i] = "pending"
                    \/ q.gl[i].pc \in {"ensure", "select"}

\* A settled promise that no code awaits any more, and the locals of a
\* handler that has ended, are unreachable: only the queries still in
\* flight remain of the request.
Forget(q) ==
    [q EXCEPT !.lk = [i \in 1..2 |-> IF LikeInFlight(q.lk[i]) THEN q.lk[i] ELSE "off"],
              !.pre = << <<>>, <<>> >>,
              !.pr = <<"off", "off">>,
              !.gl = [i \in 1..2 |-> IF q.gl[i].pc \in {"ensure", "select"}
                                     THEN q.gl[i] ELSE GlOff]]

\* return res.json(...): every promise of the request has resolved
Respond200(q, body) ==
    [q EXCEPT !.hpc = "done", !.pre = << <<>>, <<>> >>,
              !.resp = Append(@, [status |-> 200, body |-> body])]

\* res.status(400).json(...) and the catch block's res.status(500).json(...)
RespondError(q, status, body) ==
    Forget([q EXCEPT !.hpc = "done",
                     !.resp = Append(@, [status |-> status, body |-> body])])

\* mutant: the catch block logs the error and sends nothing
Respond500Silent(q, cause) ==
    Forget([q EXCEPT !.log = cause, !.hpc = "done"])


\* the catch block of the handler: console.error('API error:', err.message)
\* names the rejection caught (of a query: "store", of a lookup: "price"),
\* then res.status(500).json(...)
Respond500(q, cause) ==
    RespondError([q EXCEPT !.log = cause], 500, <<"external source error">>)

\* getLikes(sym) is called: its first query is issued
GetLikesStart(b) == [pc |-> IF b = "part_000" THEN "ensure" ELSE "select", val |-> 0]

\* getStockPrice(sym) is called
PriceStart(b) == IF b = "part_000" THEN "ok" ELSE "pending"

\* const likes = await getLikes(sym)
StartLikes(q, b) == [q EXCEPT !.hpc = "awaitLikes", !.gl[1] = GetLikesStart(b)]

\* await getStockPrice(sym) of the one-symbol branch
StartPrice(q, b) ==
    IF PriceStart(b) = "ok"
    THEN StartLikes([q EXCEPT !.pr[1] = "ok"], b)
    ELSE [q EXCEPT !.hpc = "awaitPrice", !.pr[1] = "pending"]

\* Promise.all([getStockPrice(symA), getStockPrice(symB), getLikes(symA), getLikes(symB)])
StartFetch(q, b) ==
    [q EXCEPT !.hpc = "awaitFetch",
              !.pr = <<PriceStart(b), PriceStart(b)>>,
              !.gl = <<GetLikesStart(b), GetLikesStart(b)>>]

\* mutant: relB computed like relA
RelLikesSame(likesA, likesB) == <<likesA - likesB, likesA - likesB>>

\* relA = likesA - likesB, relB = likesB - likesA
RelLikes(likesA, likesB) == <<likesA - likesB, likesB - likesA>>

\* The handler's code after the await it is suspended at, run when a
\* promise of the request has settled.
Resume(q, b) ==
    CASE q.hpc = "awaitLike" ->
           IF \E i \in 1..q.n : q.lk[i] = "failed" THEN Respond500(q, "store")
           ELSE IF \A i \in 1..q.n : q.lk[i] = "done"
                THEN (IF q.n = 1 THEN StartPrice(q, b) ELSE StartFetch(q, b))
                ELSE q
      [] q.hpc = "awaitPrice" ->
           IF q.pr[1] = "failed" THEN Respond500(q, "price")
           ELSE IF q.pr[1] = "ok" THEN StartLikes(q, b) ELSE q
      [] q.hpc = "awaitLikes" ->
           IF q.gl[1].pc = "failed" THEN Respond500(q, "store")
           ELSE IF q.gl[1].pc = "done"
                THEN Respond200(q, <<"likes", q.gl[1].val>>)
                ELSE q
      [] q.hpc = "awaitFetch" ->
           IF \E i \in 1..2 : q.gl[i].pc = "failed" THEN Respond500(q, "store")
           ELSE IF \E i \in 1..2 : q.pr[i] = "failed" THEN Respond500(q, "price")
           ELSE IF \A i \in 1..2 : q.pr[i] = "ok" /\ q.gl[i].pc = "done"
                THEN Respond200(q, <<"rel_likes">> \o RelLikes(q.gl[1].val, q.gl[2].val))
                ELSE q
      [] OTHER -> Forget(q)

\* the symbols the handler works on: stocks[0] alone, or the first two
SymbolsOf(stock) ==
    IF stock.kind = "string" \/ Len(stock.items) = 1
    THEN <<toUpperCase(stock.items[1])>>
    ELSE <<toUpperCase(stock.items[1]), toUpperCase(stock.items[2])>>

\* mutant: if (stock === undefined)
MissingOnlyUndefined(stock) == stock.kind = "undefined"

\* if (!stock): undefined and the empty string are falsy, an array is not
Missing(stock) ==
    \/ stock.kind = "undefined"
    \/ stock.kind = "string" /\ stock.items[1] = <<>>

\* The handler from its start to its first await: it answers 400, or it
\* calls likeStockIfNeeded for each symbol, which issues the INSERT.
Accept(t, stock, like, client) ==
    IF Missing(stock)
    THEN RespondError([IdleReq EXCEPT !.raw = stock], 400, <<"stock query param required">>)
    ELSE LET syms == SymbolsOf(stock)
             n == Len(syms)
         IN [IdleReq EXCEPT
               !.hpc = "awaitLike", !.n = n, !.sym = syms, !.raw = stock,
               !.ip = getClientIP(client), !.likeFlag = LikeFlagOf(like),
               !.lk = [i \in 1..2 |-> IF i <= n THEN "ensure" ELSE "off"],
               !.pre = [i \in 1..2 |-> IF i <= n /\ LikeFlagOf(like)
                                        THEN SelectRows(t, syms[i]) ELSE <<>>]]

(* ------------------------------ actions ------------------------------- *)

Init ==
    /\ build \in Builds
    /\ table = <<>>
    /\ reqs = [r \in Slots |-> IdleReq]

\* requests take the slots in order
NextSlot(r) ==
    /\ reqs[r].hpc = "idle"
    /\ \A p \in Slots : p < r => reqs[p].hpc # "idle"

\* the requests received that named two symbols
TwoSymbolSoFar == Cardinality({p \in Slots : reqs[p].n = 2})

\* GET /api/stock-prices arrives
Arrive(r) ==
    /\ NextSlot(r)
    /\ \E stock \in StockParams, like \in LikeParams, client \in Clients :
         /\ stock.kind = "array" => TwoSymbolSoFar < MaxTwoSymbol
         /\ reqs' = [reqs EXCEPT ![r] = Accept(table, stock, like, client)]
    /\ UNCHANGED <<build, table>>

\* the same, when no query or lookup of an earlier request is outstanding
ArriveAlone(r) ==
    /\ \A p \in Slots : ~InFlight(reqs[p])
    /\ Arrive(r)

\* mutant: the early return is missing
AfterEnsureNoReturn(likeFlag) == "select"

\* if (!likeFlag) return; otherwise the SELECT is issued
AfterEnsure(likeFlag) == IF likeFlag THEN "select" ELSE "done"

\* likeStockIfNeeded: the INSERT runs; without like the call returns
EnsureRow(r, i) ==
    LET q == reqs[r] IN
    /\ q.lk[i] = "ensure"
    /\ table' = InsertIfAbsent(table, q.sym[i])
    /\ reqs' = [reqs EXCEPT ![r] =
                 Resume([q EXCEPT !.lk[i] = AfterEnsure(q.likeFlag)], build)]
    /\ UNCHANGED build

\* likeStockIfNeeded: the SELECT runs; the UPDATE is issued unless the
\* row read holds the ip (rows[0] undefined makes row.ips throw)
SelectRow(r, i) ==
    LET q == reqs[r]
        rows == SelectRows(table, q.sym[i])
        pc == IF rows = <<>> THEN "failed"
              ELSE IF Includes(rows[1].ips, q.ip) THEN "done" ELSE "update"
    IN
    /\ q.lk[i] = "select"
    /\ reqs' = [reqs EXCEPT ![r] = Resume([q EXCEPT !.lk[i] = pc], build)]
    /\ UNCHANGED <<build, table>>

\* mutant: the UPDATE of either call is sent for the first symbol
UpdateRowFirst(r, i) ==
    LET q == reqs[r] IN
    /\ q.lk[i] = "update"
    /\ table' = UpdateLike(table, q.sym[1], q.ip)
    /\ reqs' = [reqs EXCEPT ![r] = Resume([q EXCEPT !.lk[i] = "done"], build)]
    /\ UNCHANGED build

\* mutant: the UPDATE writes likes and ips computed from the row the call
\* found, in place of likes + 1 and array_append on the stored row
UpdateRowFromFound(r, i) ==
    LET q == reqs[r]
        found == IF q.pre[i] = <<>> THEN NewRow ELSE q.pre[i][1]
    IN
    /\ q.lk[i] = "update"
    /\ table' = [table EXCEPT ![q.sym[i]] =
                    [likes |-> found.likes + 1, ips |-> Append(found.ips, q.ip)]]
    /\ reqs' = [reqs EXCEPT ![r] = Resume([q EXCEPT !.lk[i] = "done"], build)]
    /\ UNCHANGED build


\* mutant: the call returns at the UPDATE without the row having been
\* written
UpdateRowNotWritten(r, i) ==
    LET q == reqs[r] IN
    /\ q.lk[i] = "update"
    /\ reqs' = [reqs EXCEPT ![r] = Resume([q EXCEPT !.lk[i] = "done"], build)]
    /\ UNCHANGED <<build, table>>


\* likeStockIfNeeded: the UPDATE runs
UpdateRow(r, i) ==
    LET q == reqs[r] IN
    /\ q.lk[i] = "update"
    /\ table' = UpdateLike(table, q.sym[i], q.ip)
    /\ reqs' = [reqs EXCEPT ![r] = Resume([q EXCEPT !.lk[i] = "done"], build)]
    /\ UNCHANGED build

\* what a statement that ended in an error has done to the table: nothing,
\* or (the connection broke after the statement ran) all of it
FailedStatement(t, pc, s, ip, applied) ==
    IF ~applied THEN t
    ELSE IF pc = "ensure" THEN InsertIfAbsent(t, s)
    ELSE IF pc = "update" THEN UpdateLike(t, s, ip)
    ELSE t

\* a pool.query of likeStockIfNeeded rejects
LikeQueryFails(r, i) ==
    LET q == reqs[r] IN
    /\ LikeInFlight(q.lk[i])
    /\ \E applied \in BOOLEAN :
         table' = FailedStatement(table, q.lk[i], q.sym[i], q.ip, applied)
    /\ reqs' = [reqs EXCEPT ![r] = Resume([q EXCEPT !.lk[i] = "failed"], build)]
    /\ UNCHANGED build

\* getStockPrice: the proxy answers
PriceArrives(r, i) ==
    LET q == reqs[r] IN
    /\ q.pr[i] = "pending"
    /\ reqs' = [reqs EXCEPT ![r] = Resume([q EXCEPT !.pr[i] = "ok"], build)]
    /\ UNCHANGED <<build, table>>

\* mutant: the catch of a failed lookup takes the like back
PriceFailsRollback(r, i) ==
    LET q == reqs[r]
        Keep(x) == x # q.ip
        undo(row) == [likes |-> row.likes - 1, ips |-> SelectSeq(row.ips, Keep)]
    IN
    /\ q.pr[i] = "pending"
    /\ reqs' = [reqs EXCEPT ![r] = Resume([q EXCEPT !.pr[i] = "failed"], build)]
    /\ table' = [s \in DOMAIN table |->
                    IF s = q.sym[i] /\ q.likeFlag THEN undo(table[s]) ELSE table[s]]
    /\ UNCHANGED build

\* getStockPrice: axios.get rejects (network error, timeout, status)
PriceFails(r, i) ==
    LET q == reqs[r] IN
    /\ q.pr[i] = "pending"
    /\ reqs' = [reqs EXCEPT ![r] = Resume([q EXCEPT !.pr[i] = "failed"], build)]
    /\ UNCHANGED <<build, table>>

\* getLikes of part_000: ensureRow runs
GetLikesEnsure(r, i) ==
    LET q == reqs[r] IN
    /\ q.gl[i].pc = "ensure"
    /\ table' = InsertIfAbsent(table, q.sym[i])
    /\ reqs' = [reqs EXCEPT ![r] = Resume([q EXCEPT !.gl[i].pc = "select"], build)]
    /\ UNCHANGED build

\* rows[0]?.likes ?? 0
LikesOf(rows) == IF rows = <<>> THEN 0 ELSE rows[1].likes

\* getLikes: the SELECT runs
GetLikesSelect(r, i) ==
    LET q == reqs[r] IN
    /\ q.gl[i].pc = "select"
    /\ reqs' = [reqs EXCEPT ![r] =
                 Resume([q EXCEPT !.gl[i] = [pc |-> "done",
                                             val |-> LikesOf(SelectRows(table, q.sym[i]))]],
                        build)]
    /\ UNCHANGED <<build, table>>

\* getLikes run from its first statement to its return with no other query
\* in between: the table it leaves and the number it returns
getLikes(b, t, s) ==
    LET ensured == IF b = "part_000" THEN InsertIfAbsent(t, s) ELSE t
    IN [table |-> ensured, likes |-> LikesOf(SelectRows(ensured, s))]


\* a pool.query of getLikes rejects
GetLikesFails(r, i) ==
    LET q == reqs[r] IN
    /\ q.gl[i].pc \in {"ensure", "select"}
    /\ \E applied \in BOOLEAN :
         table' = FailedStatement(table, q.gl[i].pc, q.sym[i], q.ip, applied)
    /\ reqs' = [reqs EXCEPT ![r] = Resume([q EXCEPT !.gl[i].pc = "failed"], build)]
    /\ UNCHANGED build

\* what is left of a request when the process dies: its queries are
\* abandoned and it is never resumed; a response already sent stays sent
Abandoned(q) ==
    IF q.hpc \in {"idle", "done"}
    THEN [q EXCEPT !.lk = [i \in 1..2 |-> IF LikeInFlight(q.lk[i]) THEN "off" ELSE q.lk[i]],
                   !.gl = [i \in 1..2 |-> IF q.gl[i].pc \in {"ensure", "select"}
                                          THEN GlOff ELSE q.gl[i]]]
    ELSE [IdleReq EXCEPT !.hpc = "dead"]

\* the process stops between two store operations and is restarted: the
\* table stays, every request under way is abandoned
Crash ==
    /\ \E r \in Slots : InFlight(reqs[r])
    /\ reqs' = [r \in Slots |-> Abandoned(reqs[r])]
    /\ UNCHANGED <<build, table>>

Step(r, i) ==
    \/ EnsureRow(r, i)
    \/ SelectRow(r, i)
    \/ UpdateRow(r, i)
    \/ LikeQueryFails(r, i)
    \/ PriceArrives(r, i)
    \/ PriceFails(r, i)
    \/ GetLikesEnsure(r, i)
    \/ GetLikesSelect(r, i)
    \/ GetLikesFails(r, i)

Next ==
    \/ \E r \in Slots : Arrive(r)
    \/ \E r \in Slots, i \in 1..2 : Step(r, i)
    \/ Crash

Spec == Init /\ [][Next]_vars

\* requests served one after another: a request arrives only when every
\* earlier one has settled all its queries and lookups
NextAlone ==
    \/ \E r \in Slots : ArriveAlone(r)
    \/ \E r \in Slots, i \in 1..2 : Step(r, i)
    \/ Crash

SpecAlone == Init /\ [][NextAlone]_vars

\* the process keeps running: while a query or a lookup is pending, one of
\* the pending ones eventually returns or fails (pg and axios settle each
\* promise, the event loop runs each continuation)
NextLive ==
    \/ \E r \in Slots : Arrive(r)
    \/ \E r \in Slots, i \in 1..2 : Step(r, i)

SpecLive ==
    /\ Init /\ [][NextLive]_vars
    /\ WF_vars(\E r \in Slots, i \in 1..2 : Step(r, i))

(* --------------------------- vocabulary ------------------------------- *)

\* the keys the requests can address, and the addresses they can come from
Keys == {toUpperCase(s) : s \in RawSymbols}

Addresses == {getClientIP(c) : c \in Clients}

IpSet(row) == {row.ips[k] : k \in 1..Len(row.ips)}

\* how often ip is in the stored list
Occurrences(row, ip) == Cardinality({k \in 1..Len(row.ips) : row.ips[k] = ip})

\* the request in slot r is the last one received so far
Latest(r) ==
    /\ reqs[r].hpc # "idle"
    /\ \A p \in Slots : p > r => reqs[p].hpc = "idle"

\* the handler of q is suspended at an await
Awaiting(q) == q.hpc \in {"awaitLike", "awaitPrice", "awaitLikes", "awaitFetch"}

\* q is a one-symbol request for s from ip with like=true, answered 200
AnsweredLike(q, s, ip) ==
    /\ q.hpc = "done" /\ q.n = 1 /\ q.sym = <<s>>
    /\ q.ip = ip /\ q.likeFlag
    /\ Len(q.resp) = 1 /\ q.resp[1].status = 200

\* the row the call found when it started held the ip
HadIp(rows, ip) == rows # <<>> /\ ip \in IpSet(rows[1])

(* ------------------------------ claims -------------------------------- *)

\* C1: when every request received is a like of the same symbol S from the
\* same address I, not recorded before, and all of them have completed, in
\* whatever order their INSERT, SELECT and UPDATE ran, likes(S) has grown
\* by exactly 1 (from 0, the store being fresh).
C1_OneIncrementPerAddress ==
    \A s \in Keys, ip \in Addresses :
        (\A r \in Slots : AnsweredLike(reqs[r], s, ip))
            => s \in DOMAIN table /\ table[s].likes = 1

\* C2: in every reachable state every row's likes is the number of distinct
\* addresses recorded in it, and no address is in the list twice.
C2_LikesCountDistinctAddresses ==
    \A s \in DOMAIN table :
        /\ table[s].likes = Cardinality(IpSet(table[s]))
        /\ \A ip \in Addresses : Occurrences(table[s], ip) <= 1

\* the like call i of request r runs with no other call on its symbol:
\* the request is the last one received, its handler still awaits, and a
\* two-symbol request names two different symbols
CallAlone(r, i) ==
    LET q == reqs[r] IN
    /\ Latest(r) /\ Awaiting(q) /\ i <= q.n /\ q.likeFlag
    /\ q.n = 2 => q.sym[1] # q.sym[2]

\* what a like call that started on the row(s) rows has made of it by the
\* time it returns: one like more and the ip recorded if the ip was new,
\* the same row if it was not
LikedOnce(rows, row, ip) ==
    IF HadIp(rows, ip)
    THEN row = rows[1]
    ELSE /\ row.likes = LikesOf(rows) + 1
         /\ row.ips = (IF rows = <<>> THEN <<>> ELSE rows[1].ips) \o <<ip>>

\* C3: requests served one after another: a like call of (S, I) that has
\* returned has added exactly 1 to likes(S) if I was not recorded when it
\* started and nothing if it was, and a call that starts with I recorded
\* (calls 2..N) leaves the row as it found it at every step.
C3_SequentialLikesCountOnce ==
    \A r \in Slots, i \in 1..2 :
        CallAlone(r, i) =>
            LET q == reqs[r]
                s == q.sym[i]
            IN /\ q.lk[i] = "done" =>
                    s \in DOMAIN table /\ LikedOnce(q.pre[i], table[s], q.ip)
               /\ HadIp(q.pre[i], q.ip) /\ q.lk[i] # "failed" =>
                    s \in DOMAIN table /\ table[s] = q.pre[i][1]

\* C3 witness: the second of two like calls of one symbol from one address
\* has returned, after the first one counted
C3_Witness ==
    \E s \in Keys, ip \in Addresses :
        /\ AnsweredLike(reqs[1], s, ip)
        /\ CallAlone(2, 1) /\ reqs[2].sym = <<s>> /\ reqs[2].ip = ip
        /\ reqs[2].lk[1] = "done" /\ HadIp(reqs[2].pre[1], ip)
        /\ table[s].likes = 1

\* C4: in every reachable state, whatever statement failed and whatever
\* request was abandoned between two statements, each row's likes is the
\* number of entries of its ips.
C4_IncrementAndAppendTogether ==
    \A s \in DOMAIN table : table[s].likes = Len(table[s].ips)

\* C4 witness: a request was abandoned after its like was stored, and
\* another one was answered 500 after a failed statement
C4_Witness ==
    \E r, p \in Slots, s \in Keys :
        /\ reqs[r].hpc = "dead"
        /\ reqs[p].hpc = "done" /\ reqs[p].resp[1].status = 500
        /\ s \in DOMAIN table /\ table[s].likes >= 1

\* every row but that of s is the same before and after the step
OthersUnchanged(s) ==
    \A b \in Keys \ {s} : SelectRows(table', b) = SelectRows(table, b)

\* C5: every step of a call on symbol A (the INSERT, SELECT and UPDATE of
\* likeStockIfNeeded, the statements of getLikes, their failures) leaves
\* the record of every other symbol B as it was: present or not, its likes
\* and its ips.
C5_OtherSymbolsUntouched ==
    [][\A r \in Slots, i \in 1..2 : Step(r, i) => OthersUnchanged(reqs[r].sym[i])]_vars

\* C5 witness: one symbol has been liked while the other's row exists and
\* has no like
C5_Witness ==
    \E a, b \in Keys :
        /\ a # b /\ a \in DOMAIN table /\ b \in DOMAIN table
        /\ table[a].likes >= 1 /\ table[b] = NewRow

\* C6: a call without like never reaches the SELECT or the UPDATE, its one
\* step changes no existing row, a row it creates has likes = 0 and no ip,
\* and when it has returned the row of its symbol exists.
C6_NoLikeOnlyEnsures ==
    /\ [](\A r \in Slots, i \in 1..2 :
            ~reqs[r].likeFlag =>
                /\ reqs[r].lk[i] \notin {"select", "update"}
                /\ reqs[r].lk[i] = "done" => reqs[r].sym[i] \in DOMAIN table)
    /\ [][\A r \in Slots, i \in 1..2 :
            (~reqs[r].likeFlag /\ LikeInFlight(reqs[r].lk[i]) /\ reqs'[r].lk[i] = "done") =>
                LET s == reqs[r].sym[i] IN
                /\ \A b \in DOMAIN table : b \in DOMAIN table' /\ table'[b] = table[b]
                /\ s \in DOMAIN table'
                /\ s \notin DOMAIN table => table'[s] = NewRow
                /\ DOMAIN table' = DOMAIN table \cup {s}]_vars

\* C6 witness: a call without like has returned for a symbol that an
\* earlier request had liked
C6_Witness ==
    \E r \in Slots, i \in 1..2 :
        /\ ~reqs[r].likeFlag /\ reqs[r].lk[i] = "done"
        /\ table[reqs[r].sym[i]].likes >= 1

\* C7: on every table the service reaches, the INSERT creates the row with
\* likes = 0 and no ip exactly when the symbol has none, changes nothing
\* when it has one, and run twice does what it does run once; and every
\* ensure step of a call does to the table what the INSERT does.
C7_EnsureCreatesOnceNeverResets ==
    /\ [](\A s \in Keys :
            LET once == InsertIfAbsent(table, s) IN
            /\ s \in DOMAIN table => once = table
            /\ s \notin DOMAIN table =>
                 /\ DOMAIN once = DOMAIN table \cup {s}
                 /\ once[s] = [likes |-> 0, ips |-> <<>>]
                 /\ \A b \in DOMAIN table : once[b] = table[b]
            /\ InsertIfAbsent(once, s) = once)
    /\ [][\A r \in Slots, i \in 1..2 :
            (EnsureRow(r, i) \/ GetLikesEnsure(r, i)) =>
                LET s == reqs[r].sym[i] IN
                /\ s \in DOMAIN table => table' = table
                /\ s \notin DOMAIN table =>
                     /\ table'[s] = [likes |-> 0, ips |-> <<>>]
                     /\ \A b \in DOMAIN table : table'[b] = table[b]]_vars

\* C7 witness: a call is about to run its INSERT on a symbol whose row a
\* concurrent request has already liked
C7_Witness ==
    \E r, p \in Slots :
        /\ r # p /\ reqs[r].lk[1] = "ensure" /\ InFlight(reqs[p])
        /\ reqs[r].sym[1] \in DOMAIN table
        /\ table[reqs[r].sym[1]].likes >= 1

\* C8: no step removes a row, removes an address from a row or lowers a
\* row's likes.
C8_RowsOnlyGrow ==
    [][\A s \in DOMAIN table :
          /\ s \in DOMAIN table'
          /\ table'[s].likes >= table[s].likes
          /\ IpSet(table[s]) \subseteq IpSet(table'[s])]_vars

\* C8 witness: a row holds a like while statements are still to run
C8_Witness ==
    \E s \in DOMAIN table, r \in Slots :
        table[s].likes >= 1 /\ InFlight(reqs[r])

\* C9: requests served one after another: when both like calls of a
\* two-symbol like request from I for different symbols A and B have
\* returned, I is recorded for A and for B, and each row has one like more
\* than the call found if I was new for it and the same likes if it was
\* not, whatever happened to the other row.
C9_TwoSymbolsLikedIndependently ==
    \A r \in Slots :
        LET q == reqs[r] IN
        (CallAlone(r, 1) /\ q.n = 2 /\ q.lk = <<"done", "done">>) =>
            \A i \in 1..2 :
                /\ q.sym[i] \in DOMAIN table
                /\ q.ip \in IpSet(table[q.sym[i]])
                /\ table[q.sym[i]].likes =
                       LikesOf(q.pre[i]) + (IF HadIp(q.pre[i], q.ip) THEN 0 ELSE 1)

\* C9 witness: the two like calls have returned, the address having been
\* new for the first symbol and already recorded for the second
C9_Witness ==
    \E r \in Slots :
        LET q == reqs[r] IN
        /\ CallAlone(r, 1) /\ q.n = 2 /\ q.lk = <<"done", "done">>
        /\ ~HadIp(q.pre[1], q.ip) /\ HadIp(q.pre[2], q.ip)
        /\ table[q.sym[1]].likes = 1 /\ table[q.sym[2]].likes = 1

\* the 200 response of a two-symbol request, if q has sent one
RelLikesSent(q) ==
    q.hpc = "done" /\ q.n = 2 /\ Len(q.resp) = 1 /\ q.resp[1].status = 200

\* C10: in every response to a two-symbol request, under any interleaving
\* with other requests, the first rel_likes is minus the second, and it is
\* likes(A) - likes(B) for the two counts getLikes read for the request.
C10_RelLikesAreOpposite ==
    \A r \in Slots :
        RelLikesSent(reqs[r]) =>
            LET body == reqs[r].resp[1].body IN
            /\ body[2] = 0 - body[3]
            /\ body[2] = reqs[r].gl[1].val - reqs[r].gl[2].val

\* C10 witness: a two-symbol request has answered rel_likes 1 and -1 while
\* the other request was a like
C10_Witness ==
    \E r, p \in Slots :
        /\ r # p /\ reqs[p].likeFlag /\ reqs[p].n = 1
        /\ RelLikesSent(reqs[r])
        /\ reqs[r].resp[1].body = <<"rel_likes", 1, -1>>

\* every letter of s is a capital
IsUpperCase(s) == \A k \in 1..Len(s) : s[k] \in {"G", "O", "M", "S"}

\* a and b are the same letters, whatever their case
SameLetters(a, b) ==
    /\ Len(a) = Len(b)
    /\ \A k \in 1..Len(a) :
         \E pair \in {<<"g", "G">>, <<"o", "O">>, <<"m", "M">>, <<"s", "S">>} :
             a[k] \in {pair[1], pair[2]} /\ b[k] \in {pair[1], pair[2]}

\* C11: every key a request hands to the store, and so every key of the
\* table, is upper-case; and once the like call of a request has returned,
\* the count read under any spelling of its symbol (goog, GOOG) is that of
\* the one row that holds the like.
C11_SymbolsUpperCasedBeforeStore ==
    /\ \A s \in DOMAIN table : IsUpperCase(s)
    /\ \A r \in Slots, i \in 1..2 :
         LET q == reqs[r] IN
         i <= q.n =>
            /\ IsUpperCase(q.sym[i])
            /\ q.likeFlag /\ q.lk[i] = "done" =>
                 \A t \in RawSymbols :
                    SameLetters(t, q.raw.items[i]) =>
                        /\ SelectRows(table, toUpperCase(t)) # <<>>
                        /\ q.ip \in IpSet(SelectRows(table, toUpperCase(t))[1])
                        /\ LikesOf(SelectRows(table, toUpperCase(t))) >= 1

\* C11 witness: a like sent for "go" has returned and a request for "GO"
\* has read a count of 1
C11_Witness ==
    \E r, p \in Slots :
        /\ reqs[r].raw = [kind |-> "string", items |-> << <<"g", "o">> >>]
        /\ reqs[r].likeFlag /\ reqs[r].lk[1] = "done"
        /\ reqs[p].raw = [kind |-> "string", items |-> << <<"G", "O">> >>]
        /\ ~reqs[p].likeFlag /\ reqs[p].gl[1] = [pc |-> "done", val |-> 1]

\* the request carried no stock parameter, or an empty one
StockMissing(raw) ==
    raw.kind = "undefined" \/ (raw.kind = "string" /\ raw.items = << <<>> >>)

\* C12: a request without a symbol is answered 400 in the step it arrives
\* in; that step leaves the table as it was, the request never has a query
\* or a lookup under way, and no row is ever created for the empty symbol.
C12_MissingSymbolRejectedBeforeStore ==
    /\ [](\A r \in Slots :
            StockMissing(reqs[r].raw) =>
                /\ reqs[r].hpc = "done" /\ Len(reqs[r].resp) = 1
                /\ reqs[r].resp[1].status = 400
                /\ reqs[r].lk = <<"off", "off">> /\ reqs[r].gl = <<GlOff, GlOff>>
                /\ reqs[r].pr = <<"off", "off">>
                /\ <<>> \notin DOMAIN table)
    /\ [][\A r \in Slots :
            /\ (reqs[r].hpc = "idle" /\ StockMissing(reqs'[r].raw)) => table' = table
            /\ StockMissing(reqs[r].raw) => reqs'[r] = reqs[r]]_vars

\* C12 witness: a request without a symbol has been answered while a row
\* exists and another request is under way
C12_Witness ==
    \E r, p \in Slots :
        /\ StockMissing(reqs[r].raw) /\ reqs[r].resp[1].status = 400
        /\ InFlight(reqs[p]) /\ DOMAIN table # {}

\* C13: a request whose price lookup failed is answered 500, and if it was
\* a like its address is, and stays, recorded for each of its symbols with
\* the like counted; a later like of the same symbol from the same address,
\* which starts with the address recorded, never sends the UPDATE.
C13_PriceFailureKeepsLike ==
    \A r \in Slots :
        LET q == reqs[r] IN
        q.log = "price" =>
            /\ q.hpc = "done" /\ Len(q.resp) = 1 /\ q.resp[1].status = 500
            /\ q.likeFlag =>
                 \A i \in 1..q.n :
                    /\ q.sym[i] \in DOMAIN table
                    /\ q.ip \in IpSet(table[q.sym[i]])
                    /\ table[q.sym[i]].likes >= 1
                    /\ \A p \in Slots, j \in 1..2 :
                          (/\ p > r /\ j <= reqs[p].n /\ reqs[p].likeFlag
                           /\ reqs[p].ip = q.ip /\ reqs[p].sym[j] = q.sym[i]
                           /\ HadIp(reqs[p].pre[j], q.ip))
                          => reqs[p].lk[j] # "update"

\* C13 witness: after a like whose price lookup failed, the same like sent
\* again has run its like call, and the count is still 1
C13_Witness ==
    \E s \in Keys :
        /\ reqs[1].log = "price" /\ reqs[1].likeFlag /\ reqs[1].sym = <<s>>
        /\ reqs[2].likeFlag /\ reqs[2].sym = <<s>> /\ reqs[2].ip = reqs[1].ip
        /\ HadIp(reqs[2].pre[1], reqs[1].ip) /\ reqs[2].lk[1] = "done"
        /\ table[s].likes = 1

\* task i of the request sends a store statement in this step: a like call
\* or a getLikes call moves on to its next statement
SendsStatement(r, i) ==
    \/ /\ LikeInFlight(reqs'[r].lk[i]) /\ reqs'[r].lk[i] # reqs[r].lk[i]
    \/ /\ reqs'[r].gl[i].pc \in {"ensure", "select"}
       /\ reqs'[r].gl[i].pc # reqs[r].gl[i].pc

\* C14: a request one of whose store operations failed has ended with the
\* one response 500, and from the failure on none of its calls sends
\* another store statement.
C14_StoreFailureStopsRequest ==
    /\ [](\A r \in Slots :
            reqs[r].log = "store" =>
                /\ reqs[r].hpc = "done" /\ Len(reqs[r].resp) = 1
                /\ reqs[r].resp[1].status = 500)
    /\ [][\A r \in Slots :
            reqs[r].log = "store" => \A i \in 1..2 : ~SendsStatement(r, i)]_vars

\* a client for which neither the header, the socket nor req.ip gives an
\* address
UnknownClient == [xff |-> NoAddr, remoteAddress |-> NoAddr, ip |-> NoAddr]

\* C15: the address of a client that has none is one fixed string, and
\* when every request received is a like of the same symbol S from such a
\* client and all of them have been answered, likes(S) is exactly 1 and
\* that string is recorded for S.
C15_UnknownAddressesCountOnce ==
    /\ getClientIP(UnknownClient) # NoAddr
    /\ \A s \in Keys :
        (\A r \in Slots : AnsweredLike(reqs[r], s, getClientIP(UnknownClient)))
            => /\ s \in DOMAIN table
               /\ getClientIP(UnknownClient) \in IpSet(table[s])
               /\ table[s].likes = 1

\* C16: on every table the service reaches, getLikes of a symbol that has
\* no row returns 0 and leaves a row for it with likes = 0 and no ip, the
\* other rows as they were; getLikes of a symbol that has a row returns
\* its likes and leaves the table as it was.
C16_GetLikesCreatesOnRead ==
    \A s \in Keys :
        LET out == getLikes(build, table, s) IN
        /\ s \notin DOMAIN table =>
             /\ out.likes = 0
             /\ DOMAIN out.table = DOMAIN table \cup {s}
             /\ out.table[s] = [likes |-> 0, ips |-> <<>>]
             /\ \A b \in DOMAIN table : out.table[b] = table[b]
        /\ s \in DOMAIN table =>
             /\ out.likes = table[s].likes
             /\ out.table = table

\* the requests received so far that are answered likes of symbol s
LikersOf(s) == {r \in Slots : AnsweredLike(reqs[r], s, reqs[r].ip)}

\* C17: in whatever order the statements of concurrent requests ran, the
\* address of every answered like of S is recorded for S and likes(S) is at
\* least the number of different addresses among them; when every request
\* received is an answered like of S and their addresses are pairwise
\* different, likes(S) is exactly the number of requests.
C17_NoLikeLostBetweenAddresses ==
    \A s \in Keys :
        LET ips == {reqs[r].ip : r \in LikersOf(s)} IN
        /\ LikersOf(s) # {} =>
             /\ s \in DOMAIN table
             /\ ips \subseteq IpSet(table[s])
             /\ table[s].likes >= Cardinality(ips)
        /\ (LikersOf(s) = Slots /\ Cardinality(ips) = NumRequests) =>
             /\ table[s].likes = NumRequests
             /\ \A ip \in ips : Occurrences(table[s], ip) = 1

\* C17 witness: two likes of one symbol from two addresses ran
\* concurrently (each was told the count that includes the other's like)
\* and the count is 2
C17_Witness ==
    \E s \in Keys :
        /\ LikersOf(s) = {1, 2} /\ reqs[1].ip # reqs[2].ip
        /\ \A r \in {1, 2} : reqs[r].resp[1].body = <<"likes", 2>>
        /\ table[s].likes = 2

\* C18: requests served one after another: when both like calls of a like
\* request that names one symbol twice (the same after upper-casing) have
\* returned, the address not having been recorded when they started, the
\* symbol has exactly one like more than they found and the address is
\* recorded once.
C18_SameSymbolTwiceCountsOnce ==
    \A r \in Slots :
        LET q == reqs[r] IN
        (/\ Latest(r) /\ Awaiting(q) /\ q.likeFlag
         /\ q.n = 2 /\ q.sym[1] = q.sym[2] /\ q.lk = <<"done", "done">>
         /\ ~HadIp(q.pre[1], q.ip)) =>
            /\ q.sym[1] \in DOMAIN table
            /\ table[q.sym[1]].likes = LikesOf(q.pre[1]) + 1
            /\ Occurrences(table[q.sym[1]], q.ip) = 1

\* q is a one-symbol request with like=true
SingleLike(q) == q.n = 1 /\ q.likeFlag

\* C19: the getLikes call of a one-symbol like request is under way or has
\* returned only with the request's address recorded for its symbol; and
\* the count sent in a 200 response to such a request is at least 1 and at
\* least the likes the symbol had when the request was received, plus 1 if
\* the address was not recorded then.
C19_CountReadAfterOwnLike ==
    /\ [](\A r \in Slots :
            LET q == reqs[r] IN
            SingleLike(q) =>
                /\ q.gl[1].pc # "off" =>
                     /\ q.sym[1] \in DOMAIN table
                     /\ q.ip \in IpSet(table[q.sym[1]])
                /\ (q.hpc = "done" /\ q.resp[1].status = 200) =>
                     q.resp[1].body[2] >= 1)
    /\ [][\A r \in Slots :
            (/\ SingleLike(reqs[r]) /\ Awaiting(reqs[r])
             /\ reqs'[r].hpc = "done" /\ reqs'[r].resp[1].status = 200) =>
                /\ reqs[r].lk[1] = "done"
                /\ reqs'[r].resp[1].body[2] >= LikesOf(reqs[r].pre[1]) +
                      (IF HadIp(reqs[r].pre[1], reqs[r].ip) THEN 0 ELSE 1)]_vars

\* C19 witness: a like of a symbol that already had a like from another
\* address has been answered with the count 2
C19_Witness ==
    \E r, p \in Slots, s \in Keys :
        /\ r < p /\ AnsweredLike(reqs[r], s, reqs[r].ip)
        /\ AnsweredLike(reqs[p], s, reqs[p].ip) /\ reqs[p].ip # reqs[r].ip
        /\ reqs[r].resp[1].body = <<"likes", 1>>
        /\ reqs[p].resp[1].body = <<"likes", 2>>

\* the handler of q has ended having sent exactly one response, a 200, the
\* 400 of the missing symbol or the 500 of the catch block
AnsweredOnce(q) ==
    /\ q.hpc = "done" /\ Len(q.resp) = 1
    /\ q.resp[1].status \in {200, 400, 500}

\* C20: with the process running and pending queries and lookups
\* eventually returning or failing, from some point on every request
\* received has been answered exactly once; a request once received stays
\* received, no request is ever sent two responses, a handler that has
\* ended has sent exactly one, and a response once sent stays the only one.
C20_EveryRequestAnsweredOnce ==
    /\ [](\A r \in Slots :
            /\ Len(reqs[r].resp) <= 1
            /\ reqs[r].hpc = "done" => AnsweredOnce(reqs[r])
            /\ reqs[r].hpc \in {"idle", "done"} \/ Awaiting(reqs[r]))
    /\ [][\A r \in Slots :
            /\ AnsweredOnce(reqs[r]) => reqs'[r].resp = reqs[r].resp
            /\ reqs[r].hpc # "idle" => reqs'[r].hpc # "idle"]_vars
    /\ <>[](\A r \in Slots : reqs[r].hpc = "idle" \/ AnsweredOnce(reqs[r]))

\* C20 witness: one request has been answered 500 after a failure and
\* another 200, while a query of the failed request is still running
C20_Witness ==
    \E r, p \in Slots :
        /\ AnsweredOnce(reqs[r]) /\ reqs[r].resp[1].status = 500
        /\ InFlight(reqs[r])
        /\ AnsweredOnce(reqs[p]) /\ reqs[p].resp[1].status = 200

=============================================================================
